---- MODULE Spec2Model ----
\* A model of the a2amcp dispatcher: the agent registry and the routing path of
\* dispatcherx.py, and the task lifecycle of math_agent.py / dispatcher.py.
EXTENDS Integers, Sequences, FiniteSets, TLC

\* ---------------------------------------------------------------------------
\* Bounds
\* ---------------------------------------------------------------------------
\* number of distinct (description, capabilities) payloads a registration uses
NumDescs == 2
\* longest list of names the matching strategy answers with
MaxAgents == 2
\* longest task text
MaxTextLen == 2

\* agent names that register, names the strategy may answer with, request texts
Names == {"A", "B"}
MatcherNames == Names \cup {"Z"}
Requests == {"r1", "r2"}

\* a key that a dict.get() does not find
Missing == "<missing>"
\* Python's None
None == "<None>"

\* ---------------------------------------------------------------------------
\* dispatcherx.py: the registry, a Python dict (insertion ordered, unique keys)
\* ---------------------------------------------------------------------------
VARIABLES
    registered_agents,  \* DispatcherAgent.registered_agents: sequence of [key, value]
    lastGiven,          \* history: name -> arguments of the latest register_agent call
    lastReg,            \* history: the latest /register request and its result
    h,                  \* the handle() call in progress (one agent thread)
    task,               \* the Task handed to handle_task
    lastTask            \* history: the latest handle_task call

vars == <<registered_agents, lastGiven, lastReg, h, task, lastTask>>

Keys(d) == {d[i].key : i \in 1..Len(d)}

\* `k in d`
Has(d, k) == k \in Keys(d)

\* `d[k]` for a key that is present
DictGet(d, k) == d[CHOOSE i \in 1..Len(d) : d[i].key = k].value

\* `d[k] = v`, written as a bug would: the new entry is appended although the key is there
DictSetAppend(d, k, v) == Append(d, [key |-> k, value |-> v])

\* `d[k] = v`, written as a bug would: the dict is rebuilt with the one entry
DictSetAlone(d, k, v) == <<[key |-> k, value |-> v]>>

\* `d[k] = v`: overwrite in place when the key is there, append otherwise
DictSet(d, k, v) ==
    IF Has(d, k)
    THEN [i \in 1..Len(d) |-> IF d[i].key = k THEN [key |-> k, value |-> v] ELSE d[i]]
    ELSE Append(d, [key |-> k, value |-> v])

\* the description and the capability list of the i-th payload
DescriptionOf(i) == "d" \o ToString(i)
CapabilitiesOf(i) == [j \in 1..(i - 1) |-> "cap" \o ToString(j)]

\* the `card` body (Dict[str, Any]) of the i-th payload: without a header, or
\* with a header that has a title and no subtitle, and one section without items' titles
CardDataOf(i) ==
    IF i % 2 = 1
    THEN [header |-> "missing", title |-> Missing, subtitle |-> Missing, sections |-> 0]
    ELSE [header |-> "dict", title |-> "T" \o ToString(i), subtitle |-> Missing, sections |-> 1]

\* a `card` body whose header is a string, not a dict
BadCardData == [header |-> "str", title |-> Missing, subtitle |-> Missing, sections |-> 0]

\* dict.get(key, default)
GetOr(v, default) == IF v = Missing THEN default ELSE v

\* The Card built from the request: header fields default to the name and the
\* description; every section becomes CardSection(header='', items=[title=''])
CardOf(agent_name, description, card_data) ==
    [ title    |-> GetOr(card_data.title, agent_name),
      subtitle |-> GetOr(card_data.subtitle, description),
      sections |-> [s \in 1..card_data.sections |-> [header |-> "", items |-> <<"">>]] ]

\* card_data.get('header', {}).get(...) raises AttributeError when the header is not a dict
CardRaises(card_data) == card_data.header = "str"

AgentInfo(name, description, capabilities, card) ==
    [name |-> name, description |-> description, capabilities |-> capabilities, card |-> card]

\* register_agent's return value, written as the registry contract words it
RegisterReturnsFresh(d, agent_name) == ~Has(d, agent_name)

\* register_agent's return value
RegisterReturn(d, agent_name) == TRUE

\* register_agent, written as a bug would: the descriptor is stored for every identifier
RegisterAgentForAll(d, agent_name, description, capabilities, card) ==
    LET e == DictSet(d, agent_name, AgentInfo(agent_name, description, capabilities, card))
    IN  [i \in 1..Len(e) |->
            [key |-> e[i].key, value |-> AgentInfo(agent_name, description, capabilities, card)]]

\* DispatcherAgent.register_agent: the dict after the call
register_agent(d, agent_name, description, capabilities, card) ==
    DictSet(d, agent_name, AgentInfo(agent_name, description, capabilities, card))

NoReg == [called |-> FALSE, wasPresent |-> FALSE, ret |-> FALSE, http |-> 0]

\* POST /register, lines 185-231. It runs on the event loop without awaiting, so it
\* is one step.
Register(agent_name, i, bad) ==
    LET description == DescriptionOf(i)
        capabilities == CapabilitiesOf(i)
        card_data == IF bad THEN BadCardData ELSE CardDataOf(i)
    IN  IF CardRaises(card_data)
        THEN /\ lastReg' = [called |-> FALSE,
                            wasPresent |-> Has(registered_agents, agent_name),
                            ret |-> FALSE, http |-> 500]
             /\ UNCHANGED <<registered_agents, lastGiven>>
        ELSE LET card == CardOf(agent_name, description, card_data)
                 success == RegisterReturn(registered_agents, agent_name)
             IN  /\ registered_agents' =
                        register_agent(registered_agents, agent_name, description, capabilities, card)
                 /\ lastGiven' = [n \in DOMAIN lastGiven \cup {agent_name} |->
                                    IF n = agent_name
                                    THEN AgentInfo(agent_name, description, capabilities, card)
                                    ELSE lastGiven[n]]
                 /\ lastReg' = [called |-> TRUE,
                                wasPresent |-> Has(registered_agents, agent_name),
                                ret |-> success,
                                http |-> IF success THEN 200 ELSE 500]

\* A registration is scheduled at any point of a handle call. The state with
\* pc = "done" is the instant handle returns its response: HandleReturn follows it
\* before anything else runs.
RegisterStep ==
    /\ h.pc # "done"
    /\ \E agent_name \in Names, i \in 1..NumDescs, bad \in BOOLEAN :
          Register(agent_name, i, bad)
    /\ UNCHANGED <<h, task, lastTask>>

\* ---------------------------------------------------------------------------
\* dispatcherx.py: find_suitable_agents and handle, on the agent's own thread
\* ---------------------------------------------------------------------------
RECURSIVE SeqsUpTo(_, _)
\* the sequences over S of length at most n
SeqsUpTo(S, n) ==
    IF n = 0 THEN {<<>>}
    ELSE LET shorter == SeqsUpTo(S, n - 1)
         IN  shorter \cup {Append(s, x) : s \in {t \in shorter : Len(t) = n - 1}, x \in S}

\* What the chat completion call does: it raises, or it answers with a content that
\* is no JSON, a JSON array, an object without "agents", or an object whose "agents"
\* is a list of names, a string (its characters), a number or null.
Responses ==
    {[kind |-> k, agents |-> <<>>] :
        k \in {"raise", "unparsable", "array", "no_key", "agents_num", "agents_null"}}
    \cup {[kind |-> k, agents |-> s] :
        k \in {"agents_list", "agents_str"}, s \in SeqsUpTo(MatcherNames, MaxAgents)}

NoSuitable == [type |-> "unset", items |-> <<>>]

\* find_suitable_agents, lines 112-119: json.loads and result.get("agents", []);
\* any exception of the two gives []
ParseResponse(r) ==
    CASE r.kind \in {"unparsable", "array", "no_key"} -> [type |-> "list", items |-> <<>>]
      [] r.kind = "agents_list" -> [type |-> "list", items |-> r.agents]
      [] r.kind = "agents_str"  -> [type |-> "str", items |-> r.agents]
      [] r.kind = "agents_num"  -> [type |-> "num", items |-> <<>>]
      [] r.kind = "agents_null" -> [type |-> "none", items |-> <<>>]

\* the AgentResponse texts of handle, by the return statement that builds them
NoMatch == [kind |-> "NoMatch", agent |-> None, card |-> None, options |-> <<>>, error |-> None]
SingleMatch(agent_name, card) ==
    [kind |-> "SingleMatch", agent |-> agent_name, card |-> card, options |-> <<>>, error |-> None]
MultipleMatches(options) ==
    [kind |-> "MultipleMatches", agent |-> None, card |-> None, options |-> options, error |-> None]
\* an exception that leaves handle
Raised(e) == [kind |-> "Raised", agent |-> None, card |-> None, options |-> <<>>, error |-> e]
NoOutcome == [kind |-> "none", agent |-> None, card |-> None, options |-> <<>>, error |-> None]

\* `not suitable_agents`
Falsy(suitable) == suitable.type = "none" \/ (suitable.type \in {"list", "str"} /\ suitable.items = <<>>)

\* the card of a single match, read as a bug would: from the first registry entry
SingleCardFirst(d, agent_name) == d[1].value.card

\* handle, lines 143-147: the card of a single match
SingleCard(d, agent_name) == DictGet(d, agent_name).card

\* handle, lines 137-156, on the registry as it is when handle gets there
Decide(d, suitable) ==
    IF Falsy(suitable) THEN NoMatch
    ELSE IF suitable.type = "num" THEN Raised("TypeError")
    ELSE IF Len(suitable.items) = 1
         THEN IF Has(d, suitable.items[1])
              THEN SingleMatch(suitable.items[1], SingleCard(d, suitable.items[1]))
              ELSE Raised("KeyError")
    ELSE IF \A i \in 1..Len(suitable.items) : Has(d, suitable.items[i])
         THEN MultipleMatches([i \in 1..Len(suitable.items) |->
                    [name |-> suitable.items[i],
                     description |-> DictGet(d, suitable.items[i]).description]])
         ELSE Raised("KeyError")

Idle ==
    [pc |-> "idle", request |-> None, emptyAtStart |-> FALSE, size |-> 0, idx |-> 0,
     agent_info |-> <<>>, view |-> <<>>, llmCalls |-> 0, strategy |-> "none",
     answer |-> "none",
     suitable |-> NoSuitable, outcome |-> NoOutcome]

\* line 76 as a bug would have it: the guard is missing
RegistryEmptyNever(d) == FALSE

\* find_suitable_agents, line 76: `not self.registered_agents`
RegistryEmpty(d) == Len(d) = 0

\* handle is called; find_suitable_agents tests the registry and, when it holds
\* something, starts to iterate over its items
HandleStart ==
    /\ h.pc = "idle"
    /\ \E user_request \in Requests :
          IF RegistryEmpty(registered_agents)
          THEN h' = [Idle EXCEPT !.pc = "done", !.request = user_request,
                                 !.emptyAtStart = (registered_agents = <<>>),
                                 !.suitable = [type |-> "list", items |-> <<>>],
                                 !.outcome = Decide(registered_agents, [type |-> "list", items |-> <<>>])]
          ELSE h' = [Idle EXCEPT !.pc = "iter", !.request = user_request,
                                 !.emptyAtStart = (registered_agents = <<>>),
                                 !.size = Len(registered_agents), !.idx = 1]
    /\ UNCHANGED <<registered_agents, lastGiven, lastReg, task, lastTask>>

\* one turn of `for name, info in self.registered_agents.items()`: the iterator
\* raises when the dict has changed size since the loop began
IterStep ==
    /\ h.pc = "iter"
    /\ h.idx <= h.size
    /\ IF Len(registered_agents) # h.size
       THEN h' = [h EXCEPT !.pc = "done", !.outcome = Raised("RuntimeError")]
       ELSE h' = [h EXCEPT !.idx = h.idx + 1,
                           !.agent_info = Append(h.agent_info,
                               [name |-> registered_agents[h.idx].key,
                                description |-> registered_agents[h.idx].value.description,
                                capabilities |-> registered_agents[h.idx].value.capabilities])]
    /\ UNCHANGED <<registered_agents, lastGiven, lastReg, task, lastTask>>

\* the loop ends, the prompt is built from agent_info and the request, and
\* openai_client.chat.completions.create is called (lines 88-110)
CallLLM ==
    /\ h.pc = "iter"
    /\ h.idx > h.size
    /\ IF Len(registered_agents) # h.size
       THEN h' = [h EXCEPT !.pc = "done", !.outcome = Raised("RuntimeError")]
       ELSE h' = [h EXCEPT !.pc = "llm", !.llmCalls = h.llmCalls + 1,
                           !.view = registered_agents]
    /\ UNCHANGED <<registered_agents, lastGiven, lastReg, task, lastTask>>

\* the call raises: it is made outside the try of lines 113-119
LLMRaises ==
    /\ h.pc = "llm"
    /\ h' = [h EXCEPT !.pc = "done", !.strategy = "raised", !.outcome = Raised("APIError")]
    /\ UNCHANGED <<registered_agents, lastGiven, lastReg, task, lastTask>>

\* the call answers; the answer is parsed and handle builds its response
LLMAnswers ==
    /\ h.pc = "llm"
    /\ \E r \in {x \in Responses : x.kind # "raise"} :
          LET suitable == ParseResponse(r)
          IN  h' = [h EXCEPT !.pc = "done", !.strategy = "answered", !.answer = r.kind,
                             !.suitable = suitable,
                             !.outcome = Decide(registered_agents, suitable)]
    /\ UNCHANGED <<registered_agents, lastGiven, lastReg, task, lastTask>>

\* the caller takes the response; the agent thread waits for the next request
HandleReturn ==
    /\ h.pc = "done"
    /\ h' = Idle
    /\ UNCHANGED <<registered_agents, lastGiven, lastReg, task, lastTask>>

\* ---------------------------------------------------------------------------
\* math_agent.py and dispatcher.py: the task lifecycle of handle_task / route
\* ---------------------------------------------------------------------------
\* characters of a task text; the first is whitespace
Chars == {" ", "x"}
Whitespace == {" "}
Texts == SeqsUpTo(Chars, MaxTextLen)

\* what str(eval(expr)) returns, and the str() of what it raises
Results == {"4", "5"}
Errors == {"division by zero", "invalid syntax"}

\* task.message: None; a dict without "content"; with a "content" that is no dict;
\* with a content dict without "text"; with a text; with a "text" that is no string
Messages ==
    {[kind |-> k, text |-> <<>>] : k \in {"none", "no_content", "content_str", "no_text", "text_nonstr"}}
    \cup {[kind |-> "text", text |-> t] : t \in Texts}

\* lines 30-32: message_data.get("content", {}), content.get("text", "")
TextOf(message) == IF message.kind = "text" THEN message.text ELSE <<>>

\* .strip() of a value that is no string raises AttributeError
StripRaises(message) == message.kind = "text_nonstr"

RECURSIVE LStrip(_)
LStrip(s) == IF s # <<>> /\ Head(s) \in Whitespace THEN LStrip(Tail(s)) ELSE s

RECURSIVE RStrip(_)
RStrip(s) ==
    IF s # <<>> /\ s[Len(s)] \in Whitespace THEN RStrip(SubSeq(s, 1, Len(s) - 1)) ELSE s

\* the text used as it came, as a bug would
StripNothing(s) == s

\* str.strip()
Strip(s) == RStrip(LStrip(s))

NoMessage == [role |-> None, type |-> None, text |-> <<>>]
AgentText(text) == [role |-> "agent", type |-> "text", text |-> text]

\* the fixed prompt of lines 35-39
PromptMessage == AgentText(<<"Please provide a mathematical expression to calculate.">>)

\* the failure message without the error's text, as a bug would
FailedMessageNoDetail(detail) == AgentText(<<"Error calculating expression: ">>)

\* the f-string of lines 50-54
FailedMessage(detail) == AgentText(<<"Error calculating expression: ", detail>>)

TaskStatus(state, message) == [state |-> state, message |-> message]

\* a task as the server creates it for a request
NewTask(message) ==
    [message |-> message, status |-> TaskStatus("SUBMITTED", NoMessage), artifacts |-> <<>>]

Returns(r) == [raises |-> FALSE, value |-> r]
Raises(e) == [raises |-> TRUE, value |-> e]

\* MathAgent.calculate: str(eval(expr)) returns or raises, as the expression has it
MathCalculate == {Returns(r) : r \in Results} \cup {Raises(e) : e \in Errors}

\* dispatcher.py's DispatcherAgent defines no calculate: self.calculate raises
\* AttributeError before anything is called
DispatcherCalculate == {Raises("'DispatcherAgent' object has no attribute 'calculate'")}

\* the try block with the artifact left out, as a bug would
AfterCalculateNoArtifact(t, outcome) ==
    IF outcome.raises
    THEN [t EXCEPT !.status = TaskStatus("FAILED", FailedMessage(outcome.value))]
    ELSE [t EXCEPT !.status = TaskStatus("COMPLETED", NoMessage)]

\* the try block with the artifact attached before calculate is called, as a bug would
AfterCalculateArtifactFirst(t, outcome) ==
    IF outcome.raises
    THEN [t EXCEPT !.artifacts = << [parts |-> <<>>] >>,
                   !.status = TaskStatus("FAILED", FailedMessage(outcome.value))]
    ELSE [t EXCEPT !.artifacts = << [parts |-> << [type |-> "text", text |-> outcome.value] >>] >>,
                   !.status = TaskStatus("COMPLETED", NoMessage)]

\* math_agent.py lines 41-54: the try block, given what calculate did
AfterCalculate(t, outcome) ==
    IF outcome.raises
    THEN [t EXCEPT !.status = TaskStatus("FAILED", FailedMessage(outcome.value))]
    ELSE [t EXCEPT !.artifacts = << [parts |-> << [type |-> "text", text |-> outcome.value] >>] >>,
                   !.status = TaskStatus("COMPLETED", NoMessage)]

\* MathAgent.handle_task, math_agent.py lines 28-55: the task it returns, whether
\* the try block was reached, and the exception that left it
handle_task(t, outcome) ==
    IF StripRaises(t.message)
    THEN [task |-> t, reached |-> FALSE, escaped |-> "AttributeError"]
    ELSE IF Strip(TextOf(t.message)) = <<>>
    THEN [task |-> [t EXCEPT !.status = TaskStatus("INPUT_REQUIRED", PromptMessage)],
          reached |-> FALSE, escaped |-> None]
    ELSE [task |-> AfterCalculate(t, outcome), reached |-> TRUE, escaped |-> None]

\* dispatcher.py lines 22-24
RouteTextOf(message) == IF message.kind = "text" THEN message.text ELSE <<>>

\* dispatcher.py lines 27-31
RoutePromptMessage ==
    [role |-> "agent", type |-> "text",
     text |-> <<"Please provide a mathematical expression to calculate.">>]

\* dispatcher.py lines 33-46: the try block, given what self.calculate did
RouteAfterCalculate(t, outcome) ==
    IF outcome.raises
    THEN [t EXCEPT !.status =
            [state |-> "FAILED",
             message |-> [role |-> "agent", type |-> "text",
                          text |-> <<"Error calculating expression: ", outcome.value>>]]]
    ELSE [t EXCEPT !.artifacts = << [parts |-> << [type |-> "text", text |-> outcome.value] >>] >>,
                   !.status = [state |-> "COMPLETED", message |-> NoMessage]]

\* route with the prompt set for every task, as a bug would
RouteAlwaysPrompts(t, outcome) ==
    [task |-> [t EXCEPT !.status = [state |-> "INPUT_REQUIRED", message |-> RoutePromptMessage]],
     reached |-> FALSE, escaped |-> None]

\* DispatcherAgent.route, dispatcher.py lines 21-47
route(t, outcome) ==
    IF t.message.kind = "text_nonstr"
    THEN [task |-> t, reached |-> FALSE, escaped |-> "AttributeError"]
    ELSE IF Strip(RouteTextOf(t.message)) = <<>>
    THEN [task |-> [t EXCEPT !.status = [state |-> "INPUT_REQUIRED", message |-> RoutePromptMessage]],
          reached |-> FALSE, escaped |-> None]
    ELSE [task |-> RouteAfterCalculate(t, outcome), reached |-> TRUE, escaped |-> None]

\* DispatcherAgent.handle_task, dispatcher.py lines 49-51
dispatcher_handle_task(t, outcome) == route(t, outcome)

\* calculate was not reached
NotCalculated == [raises |-> FALSE, value |-> None]

NoTaskCall ==
    [called |-> FALSE, agent |-> None, preStatus |-> TaskStatus("SUBMITTED", NoMessage),
     preArtifacts |-> <<>>,
     calculated |-> FALSE, outcome |-> NotCalculated, escaped |-> None]

\* the server hands the task to the agent's handle_task; `invoked` tells whether
\* the agent has a calculate to run once the try block is reached
HandleTask(agent, res, outcome, invoked) ==
    /\ task' = res.task
    /\ lastTask' = [called |-> TRUE, agent |-> agent, preStatus |-> task.status,
                    preArtifacts |-> task.artifacts,
                    calculated |-> (res.reached /\ invoked),
                    outcome |-> IF res.reached THEN outcome ELSE NotCalculated,
                    escaped |-> res.escaped]

MathHandleTask ==
    /\ \E outcome \in MathCalculate :
          HandleTask("MathAgent", handle_task(task, outcome), outcome, TRUE)
    /\ UNCHANGED <<registered_agents, lastGiven, lastReg, h>>

DispatcherHandleTask ==
    /\ \E outcome \in DispatcherCalculate :
          HandleTask("DispatcherAgent", dispatcher_handle_task(task, outcome), outcome, FALSE)
    /\ UNCHANGED <<registered_agents, lastGiven, lastReg, h>>

\* a request arrives and the server creates its task
SubmitTask ==
    /\ \E m \in Messages : task' = NewTask(m)
    /\ lastTask' = NoTaskCall
    /\ UNCHANGED <<registered_agents, lastGiven, lastReg, h>>

InitRegistry ==
    /\ registered_agents = <<>>
    /\ lastGiven = <<>>
    /\ lastReg = NoReg
    /\ h = Idle

Init ==
    /\ InitRegistry
    /\ task = NewTask([kind |-> "none", text |-> <<>>])
    /\ lastTask = NoTaskCall

Next ==
    \/ RegisterStep
    \/ HandleStart
    \/ IterStep
    \/ CallLLM
    \/ LLMRaises
    \/ LLMAnswers
    \/ HandleReturn

Spec == Init /\ [][Next]_vars

TaskInit ==
    /\ InitRegistry
    /\ \E m \in Messages : task = NewTask(m)
    /\ lastTask = NoTaskCall

TaskNext ==
    \/ SubmitTask
    \/ MathHandleTask
    \/ DispatcherHandleTask

TaskSpec == TaskInit /\ [][TaskNext]_vars

\* ---------------------------------------------------------------------------
\* Properties
\* ---------------------------------------------------------------------------
\* C1: after any sequence of register calls the registry holds exactly one entry
\* per identifier ever registered, and the entry is the descriptor of the latest
\* register call for that identifier.
C1_LastWriteWins ==
    /\ Len(registered_agents) = Cardinality(Keys(registered_agents))
    /\ Keys(registered_agents) = DOMAIN lastGiven
    /\ \A i \in 1..Len(registered_agents) :
          registered_agents[i].value = lastGiven[registered_agents[i].key]

\* an identifier was registered again while another one is registered too
C1_Witness ==
    /\ lastReg.called
    /\ lastReg.wasPresent
    /\ Len(registered_agents) = 2
    /\ registered_agents[1].value.description # registered_agents[2].value.description

\* C2 as claimed: register returns true if and only if the identifier was absent
\* before the call.
C2_TrueIffFresh == lastReg.called => (lastReg.ret <=> ~lastReg.wasPresent)

\* C2 as the code has it: register_agent returns true on every call, for a fresh
\* identifier and for an update alike, and the endpoint answers success.
C2_AlwaysTrue == lastReg.called => (lastReg.ret /\ lastReg.http = 200)

\* an update returned
C2_Witness == lastReg.called /\ lastReg.wasPresent /\ lastReg.ret

\* C3: a routing call that finds the registry empty yields NoMatch and never
\* calls the matching strategy.
C3_EmptyRegistryNoMatch ==
    h.emptyAtStart =>
        /\ h.llmCalls = 0
        /\ h.strategy = "none"
        /\ h.pc = "done"
        /\ h.outcome = NoMatch

C3_Witness == h.pc = "done" /\ h.emptyAtStart /\ h.outcome.kind = "NoMatch"

\* C4: when the matching strategy raises during a routing call on a non-empty
\* registry, the call yields NoMatch and the error does not reach the caller.
C4_StrategyErrorNoMatch ==
    (h.pc = "done" /\ h.strategy = "raised") => h.outcome = NoMatch

\* C5: when the matcher returns exactly one identifier that is not registered,
\* the routing call yields NoMatch.
C5_DanglingNoMatch ==
    (/\ h.pc = "done"
     /\ h.suitable.type = "list"
     /\ Len(h.suitable.items) = 1
     /\ ~Has(registered_agents, h.suitable.items[1])) => h.outcome = NoMatch

\* C6: a register call that completes after the routing call took its view of
\* the registry changes nothing the outcome carries: a single match names an agent
\* of the view with the view's card, and every option of a multiple match is an
\* agent of the view with the view's description.
C6_SnapshotIsolation ==
    (h.pc = "done" /\ h.strategy = "answered") =>
        /\ h.outcome.kind = "SingleMatch" =>
              /\ Has(h.view, h.outcome.agent)
              /\ h.outcome.card = DictGet(h.view, h.outcome.agent).card
        /\ h.outcome.kind = "MultipleMatches" =>
              \A i \in 1..Len(h.outcome.options) :
                 /\ Has(h.view, h.outcome.options[i].name)
                 /\ h.outcome.options[i].description =
                        DictGet(h.view, h.outcome.options[i].name).description

\* C7: handle_task (or route) on a task that is COMPLETED or FAILED is rejected or
\* leaves the task's status and artifacts as they were.
C7_TerminalImmutable ==
    (lastTask.called /\ lastTask.preStatus.state \in {"COMPLETED", "FAILED"}) =>
        \/ lastTask.escaped # None
        \/ (task.status = lastTask.preStatus /\ task.artifacts = lastTask.preArtifacts)

\* C8: when the matcher returns exactly one identifier and it is registered, the
\* routing call yields SingleMatch naming it, with the card the registry holds for it.
C8_SingleMatch ==
    (/\ h.pc = "done"
     /\ h.strategy = "answered"
     /\ h.suitable.type \in {"list", "str"}
     /\ Len(h.suitable.items) = 1
     /\ Has(registered_agents, h.suitable.items[1])) =>
        h.outcome = SingleMatch(h.suitable.items[1],
                                DictGet(registered_agents, h.suitable.items[1]).card)

\* the second of two registered agents is the single match
C8_Witness ==
    /\ h.pc = "done"
    /\ h.outcome.kind = "SingleMatch"
    /\ Len(registered_agents) = 2
    /\ h.outcome.agent = registered_agents[2].key

\* C9: when the matcher returns two or more identifiers, the routing call yields
\* MultipleMatches listing exactly those agents in the matcher's order, each with
\* its registry description, and never fewer than two of them.
C9_MultipleMatches ==
    (/\ h.pc = "done"
     /\ h.strategy = "answered"
     /\ h.suitable.type = "list"
     /\ Len(h.suitable.items) >= 2) =>
        /\ h.outcome.kind = "MultipleMatches"
        /\ Len(h.outcome.options) = Len(h.suitable.items)
        /\ Len(h.outcome.options) >= 2
        /\ \A i \in 1..Len(h.suitable.items) :
              /\ h.outcome.options[i].name = h.suitable.items[i]
              /\ h.outcome.options[i].description =
                     DictGet(registered_agents, h.suitable.items[i]).description

\* the task's text is empty, missing, or nothing but whitespace
BlankContent(message) ==
    \/ message.kind \in {"none", "no_content", "content_str", "no_text"}
    \/ (message.kind = "text" /\ \A i \in 1..Len(message.text) : message.text[i] \in Whitespace)

\* C10: a SUBMITTED task with empty, missing or whitespace-only text ends
\* INPUT_REQUIRED with the fixed, non-empty prompt and no artifacts, and calculate
\* is not invoked for it.
C10_BlankInputRequired ==
    (/\ lastTask.called
     /\ lastTask.preStatus.state = "SUBMITTED"
     /\ BlankContent(task.message)) =>
        /\ lastTask.escaped = None
        /\ task.status.state = "INPUT_REQUIRED"
        /\ task.status.message = PromptMessage
        /\ task.status.message.text # <<>>
        /\ \A i \in 1..Len(task.status.message.text) : task.status.message.text[i] # ""
        /\ task.artifacts = <<>>
        /\ ~lastTask.calculated

\* a task of two blanks was handled
C10_Witness ==
    /\ lastTask.called
    /\ lastTask.preStatus.state = "SUBMITTED"
    /\ task.message.kind = "text"
    /\ task.message.text = <<" ", " ">>
    /\ task.status.state = "INPUT_REQUIRED"

\* the task's text has something other than whitespace in it
NonBlankContent(message) ==
    message.kind = "text" /\ \E i \in 1..Len(message.text) : message.text[i] \notin Whitespace

\* C11: a SUBMITTED task with non-empty content whose executor returns r ends
\* COMPLETED with exactly one artifact, whose single text part is r.
C11_CompletedWithResult ==
    (/\ lastTask.called
     /\ lastTask.preStatus.state = "SUBMITTED"
     /\ NonBlankContent(task.message)
     /\ lastTask.calculated
     /\ ~lastTask.outcome.raises) =>
        /\ task.status.state = "COMPLETED"
        /\ Len(task.artifacts) = 1
        /\ Len(task.artifacts[1].parts) = 1
        /\ task.artifacts[1].parts[1] = [type |-> "text", text |-> lastTask.outcome.value]
        /\ lastTask.escaped = None

\* a padded text was calculated to "4"
C11_Witness ==
    /\ lastTask.called
    /\ lastTask.preStatus.state = "SUBMITTED"
    /\ task.message.text = <<" ", "x">>
    /\ lastTask.outcome = Returns("4")
    /\ task.status.state = "COMPLETED"

\* C12: a SUBMITTED task with non-empty content whose executor raises ends FAILED
\* with a message that contains the error's text; nothing leaves handle_task.
C12_FailedWithDetail ==
    (/\ lastTask.called
     /\ lastTask.preStatus.state = "SUBMITTED"
     /\ NonBlankContent(task.message)
     /\ lastTask.outcome.raises) =>
        /\ task.status.state = "FAILED"
        /\ \E i \in 1..Len(task.status.message.text) :
              task.status.message.text[i] = lastTask.outcome.value
        /\ lastTask.escaped = None

\* MathAgent's calculate raised on a fresh task
C12_Witness ==
    /\ lastTask.called
    /\ lastTask.agent = "MathAgent"
    /\ lastTask.preStatus.state = "SUBMITTED"
    /\ lastTask.outcome = Raises("division by zero")
    /\ task.status.state = "FAILED"

\* the answers that cannot be parsed, or whose parsed value is no list of names
Malformed == {"unparsable", "array", "agents_str", "agents_num", "agents_null"}

\* C13: when the strategy answers with malformed data, the matcher returns
\* nothing and the routing call yields NoMatch.
C13_MalformedFailsClosed ==
    (h.pc = "done" /\ h.strategy = "answered" /\ h.answer \in Malformed) =>
        /\ h.suitable.items = <<>>
        /\ h.suitable.type \in {"list", "none"}
        /\ h.outcome = NoMatch

\* C14: a handle_task run on a SUBMITTED task ends with the task in exactly one
\* of INPUT_REQUIRED, COMPLETED and FAILED, never still SUBMITTED.
C14_LeavesSubmitted ==
    (lastTask.called /\ lastTask.preStatus.state = "SUBMITTED") =>
        /\ task.status.state \in {"INPUT_REQUIRED", "COMPLETED", "FAILED"}
        /\ lastTask.escaped = None

\* C15: the registry starts empty, only a register call changes it, it never
\* loses an identifier, and the steps of a routing call leave it as it is.
C15_RegistryOnlyGrows ==
    /\ registered_agents = <<>>
    /\ [][/\ Keys(registered_agents) \subseteq Keys(registered_agents')
          /\ Len(registered_agents) <= Len(registered_agents')
          /\ registered_agents' # registered_agents => (lastReg'.called /\ h' = h)
          /\ h' # h => registered_agents' = registered_agents]_vars

\* a routing call has ended on a registry of two, after an update
C15_Witness ==
    /\ Len(registered_agents) = 2
    /\ lastReg.called
    /\ lastReg.wasPresent
    /\ h.pc = "done"
    /\ h.outcome.kind = "MultipleMatches"

\* C16: every register call of an interleaving is applied, each identifier
\* present with its own descriptor, and the registry reads of a routing call in
\* flight never fail.
C16_ConcurrentRegistryAccess ==
    /\ \A n \in DOMAIN lastGiven :
          Has(registered_agents, n) /\ DictGet(registered_agents, n) = lastGiven[n]
    /\ \A i \in 1..Len(h.agent_info) : Has(registered_agents, h.agent_info[i].name)
    /\ ~(h.pc = "done" /\ h.outcome.kind = "Raised" /\ h.outcome.error = "RuntimeError")

\* C17: a routing call invokes the matching strategy at most once, and exactly
\* once when the registry is not empty.
C17_OneStrategyCall ==
    /\ h.llmCalls <= 1
    /\ (h.pc = "done" /\ ~h.emptyAtStart) => h.llmCalls = 1

\* C18: after handle_task on a freshly submitted task, the task has artifacts
\* if and only if it is COMPLETED; a FAILED task has none.
C18_ArtifactsIffCompleted ==
    (/\ lastTask.called
     /\ lastTask.preStatus.state = "SUBMITTED"
     /\ lastTask.preArtifacts = <<>>) =>
        /\ (task.artifacts # <<>>) <=> (task.status.state = "COMPLETED")
        /\ task.status.state = "FAILED" => task.artifacts = <<>>

\* a fresh task failed in MathAgent and has no artifact
C18_Witness ==
    /\ lastTask.called
    /\ lastTask.agent = "MathAgent"
    /\ lastTask.preStatus.state = "SUBMITTED"
    /\ lastTask.calculated
    /\ task.status.state = "FAILED"
    /\ task.artifacts = <<>>

\* C19: MathAgent.handle_task and the dispatcher's handle_task / route leave a
\* task the same, in status, message and artifacts, for every content and every
\* outcome of the executor.
C19_CopiesEquivalent ==
    \A outcome \in MathCalculate \cup DispatcherCalculate :
        /\ handle_task(task, outcome) = dispatcher_handle_task(task, outcome)
        /\ handle_task(task, outcome).task.status = route(task, outcome).task.status
        /\ handle_task(task, outcome).task.artifacts = route(task, outcome).task.artifacts

\* a task that MathAgent completed was handed to the dispatcher's route
C19_Witness ==
    /\ lastTask.called
    /\ lastTask.agent = "DispatcherAgent"
    /\ lastTask.preStatus.state = "COMPLETED"
    /\ task.status.state = "FAILED"
    /\ task.artifacts # <<>>

====
